---- MODULE Spec2Model ----
(***************************************************************************)
(* Thunder, BoltDB's interactive shell: the path resolver (travel,         *)
(* parseKeyPath), the Bucket interface with its two implementations        *)
(* (RootBucket, SubBucket), the six command handlers, the two completers   *)
(* and the end of the session, over a model of the Bolt calls they make    *)
(* inside the session's single write transaction.                          *)
(*                                                                         *)
(* A Go string is a sequence of one-character strings; a key is the        *)
(* sequence of its characters.  The database is the function `store` from  *)
(* the key path of every bound entry (a sequence of keys, from the root)   *)
(* to what is bound there.                                                 *)
(***************************************************************************)
EXTENDS Integers, Sequences, FiniteSets, TLC

VARIABLES store, cwd, prompt, last, crashed, ended, disk

vars == <<store, cwd, prompt, last, crashed, ended, disk>>

(***************************************************************************)
(* Bounds of the model.                                                    *)
(***************************************************************************)
\* at most this many keys (of buckets and of values) are bound in the database
\* at once
MaxEntries == 3

(***************************************************************************)
(* Strings.                                                                *)
(***************************************************************************)
Slash == "/"
Dot == <<".">>
DotDot == <<".", ".">>
Empty == <<>>

\* byte order of the characters used (ASCII)
Ord(c) ==
  CASE c = "." -> 46
    [] c = "/" -> 47
    [] c = "A" -> 65
    [] c = "B" -> 66
    [] c = "C" -> 67
    [] c = "X" -> 88

\* bytes.Compare(a, b) < 0
RECURSIVE BytesLess(_, _)
BytesLess(a, b) ==
  IF b = <<>> THEN FALSE
  ELSE IF a = <<>> THEN TRUE
  ELSE IF Ord(Head(a)) # Ord(Head(b)) THEN Ord(Head(a)) < Ord(Head(b))
  ELSE BytesLess(Tail(a), Tail(b))

\* 1-based positions of the separator in s
SlashPositions(s) == {i \in 1..Len(s) : s[i] = Slash}

Min(S) == CHOOSE x \in S : \A y \in S : x <= y
Max(S) == CHOOSE x \in S : \A y \in S : x >= y

\* strings.Split(s, "/")
RECURSIVE Split(_)
Split(s) ==
  IF SlashPositions(s) = {} THEN <<s>>
  ELSE LET i == Min(SlashPositions(s))
       IN <<SubSeq(s, 1, i - 1)>> \o Split(SubSeq(s, i + 1, Len(s)))

\* strings.LastIndex(s, "/"), 0-based, -1 when there is none
LastIndex(s) ==
  IF SlashPositions(s) = {} THEN -1 ELSE Max(SlashPositions(s)) - 1

\* strings.Join(a, "/")
RECURSIVE Join(_)
Join(a) ==
  IF Len(a) = 0 THEN <<>>
  ELSE IF Len(a) = 1 THEN a[1]
  ELSE a[1] \o <<Slash>> \o Join(Tail(a))

\* whether p is a prefix of q
IsPrefix(p, q) == Len(p) <= Len(q) /\ SubSeq(q, 1, Len(p)) = p

(***************************************************************************)
(* Errors.  A sentinel error is identified by its name; an error made on   *)
(* the spot by errors.New or fmt.Errorf has id "new" and is identified by  *)
(* its text, a wrapped error keeping the key it quotes and its cause.      *)
(***************************************************************************)
Nil == [id |-> "nil"]
ErrNoSuchBucket == [id |-> "ErrNoSuchBucket", msg |-> "no such bucket"]
ErrNoKeysAtRoot == [id |-> "ErrNoKeysAtRoot", msg |-> "cannot store values at root bucket"]
ErrNoSuchKey == [id |-> "ErrNoSuchKey", msg |-> "no such key"]
NewError(text) == [id |-> "new", msg |-> text]
Errorf(text, key, cause) == [id |-> "new", msg |-> text, key |-> key, cause |-> cause.msg]

\* Bolt's errors
BoltKeyRequired == [id |-> "bolt.ErrKeyRequired", msg |-> "key required"]
BoltBucketNameRequired == [id |-> "bolt.ErrBucketNameRequired", msg |-> "bucket name required"]
BoltBucketExists == [id |-> "bolt.ErrBucketExists", msg |-> "bucket already exists"]
BoltBucketNotFound == [id |-> "bolt.ErrBucketNotFound", msg |-> "bucket not found"]
BoltIncompatibleValue == [id |-> "bolt.ErrIncompatibleValue", msg |-> "incompatible value"]

(***************************************************************************)
(* Bolt, as the shell uses it.  An entry of the store is a value or a      *)
(* bucket.  A *bolt.Bucket is named by the key path it was opened at       *)
(* (`at`); DeleteBucket leaves the objects of the deleted subtree behind   *)
(* (`dead`), with their nodes dropped, so that a dead bucket reads as its  *)
(* inline page, which is empty for a bucket created in this transaction,   *)
(* or is gone (`page` FALSE) once a sub-bucket was created in it.          *)
(***************************************************************************)
Values == {"hello", ""}

ValEntry(v) == [kind |-> "val", val |-> v]
BucketEntry(pg) == [kind |-> "bucket", page |-> pg]

\* the transaction's root bucket
TxRoot == [at |-> <<>>, dead |-> FALSE, page |-> TRUE]
LiveBucket(path) == [at |-> path, dead |-> FALSE, page |-> TRUE]

\* the keys bound in bucket b
Children(s, b) ==
  IF b.dead THEN {}
  ELSE {p[Len(p)] : p \in {q \in DOMAIN s : Len(q) = Len(b.at) + 1 /\ IsPrefix(b.at, q)}}

\* a cursor of a dead bucket without page dereferences nil
CursorPanics(b) == b.dead /\ ~b.page

\* Bucket.node: _assert(b.nodes != nil, "nodes map expected")
NodePanics(b) == b.dead

\* the least key of a set, in byte order
Least(S) == CHOOSE x \in S : \A y \in S : y = x \/ BytesLess(x, y)

\* the cursor's position among the keys ge at or after the key sought
SeekAmong(s, b, ge) ==
  IF ge = {} THEN [panic |-> FALSE, found |-> FALSE]
  ELSE [panic |-> FALSE, found |-> TRUE, k |-> Least(ge),
        entry |-> s[b.at \o <<Least(ge)>>]]

\* Cursor.seek: the first key at or after `key`, with what is bound to it
BoltSeek(s, b, key) ==
  IF CursorPanics(b) THEN [panic |-> TRUE, found |-> FALSE]
  ELSE SeekAmong(s, b, {k \in Children(s, b) : ~BytesLess(k, key)})

\* whether the cursor r stands on exactly `key` (bytes.Equal(key, k))
SeekExact(r, key) == r.found /\ r.k = key
\* whether the cursor r stands on a bucket (flags & bucketLeafFlag)
SeekIsBucket(r) == r.found /\ r.entry.kind = "bucket"

\* Bucket.Bucket(name), the cursor having sought the name: the sub-bucket, or nil
BucketAt(b, key, r) ==
  IF r.panic THEN [panic |-> TRUE, nil |-> TRUE]
  ELSE IF ~SeekExact(r, key) \/ ~SeekIsBucket(r) THEN [panic |-> FALSE, nil |-> TRUE]
  ELSE [panic |-> FALSE, nil |-> FALSE, b |-> LiveBucket(b.at \o <<key>>)]

BoltBucket(s, b, key) == BucketAt(b, key, BoltSeek(s, b, key))

\* a Bucket.Get that returns nil for an empty value
GetAt_EmptyIsNil(key, r) ==
  IF r.panic THEN [panic |-> TRUE, nil |-> TRUE]
  ELSE IF SeekIsBucket(r) \/ ~SeekExact(r, key) \/ r.entry.val = ""
    THEN [panic |-> FALSE, nil |-> TRUE]
  ELSE [panic |-> FALSE, nil |-> FALSE, val |-> r.entry.val]

\* Bucket.Get(key), the cursor having sought the key: the value, or nil for an
\* unbound key and for a bucket
GetAt(key, r) ==
  IF r.panic THEN [panic |-> TRUE, nil |-> TRUE]
  ELSE IF SeekIsBucket(r) THEN [panic |-> FALSE, nil |-> TRUE]
  ELSE IF ~SeekExact(r, key) THEN [panic |-> FALSE, nil |-> TRUE]
  ELSE [panic |-> FALSE, nil |-> FALSE, val |-> r.entry.val]

BoltGet(s, b, key) == GetAt(key, BoltSeek(s, b, key))

\* the results of the calls that write
Returned(err, s) == [panic |-> FALSE, err |-> err, store |-> s]
Panicked(s) == [panic |-> TRUE, err |-> [id |-> "nil"], store |-> s]

\* the store with entry e bound at path
Bind(s, path, e) == [p \in DOMAIN s \cup {path} |-> IF p = path THEN e ELSE s[p]]

\* a Put that writes the value in the place of a bucket
PutAt_OverBucket(s, b, key, value, r) ==
  IF r.panic THEN Panicked(s)
  ELSE IF NodePanics(b) THEN Panicked(s)
  ELSE Returned(Nil, Bind(s, b.at \o <<key>>, ValEntry(value)))

\* Bucket.Put(key, value), the cursor having sought the key
PutAt(s, b, key, value, r) ==
  IF r.panic THEN Panicked(s)
  ELSE IF SeekExact(r, key) /\ SeekIsBucket(r) THEN Returned(BoltIncompatibleValue, s)
  ELSE IF NodePanics(b) THEN Panicked(s)
  ELSE Returned(Nil, Bind(s, b.at \o <<key>>, ValEntry(value)))

\* (the keys and values used here are far below MaxKeySize and MaxValueSize)
BoltPut(s, b, key, value) ==
  IF Len(key) = 0 THEN Returned(BoltKeyRequired, s)
  ELSE PutAt(s, b, key, value, BoltSeek(s, b, key))

\* the parent's inline page is dereferenced (b.page = nil)
DropPage(s, b) == IF b.at \in DOMAIN s THEN Bind(s, b.at, BucketEntry(FALSE)) ELSE s

\* a CreateBucket that puts the new bucket in the place of a value
CreateBucketAt_OverValue(s, b, key, r) ==
  IF r.panic THEN Panicked(s)
  ELSE IF SeekExact(r, key) /\ SeekIsBucket(r) THEN Returned(BoltBucketExists, s)
  ELSE IF NodePanics(b) THEN Panicked(s)
  ELSE Returned(Nil, Bind(DropPage(s, b), b.at \o <<key>>, BucketEntry(TRUE)))

\* Bucket.CreateBucket(key), the cursor having sought the key: the new bucket is
\* empty and inline
CreateBucketAt(s, b, key, r) ==
  IF r.panic THEN Panicked(s)
  ELSE IF SeekExact(r, key) /\ SeekIsBucket(r) THEN Returned(BoltBucketExists, s)
  ELSE IF SeekExact(r, key) THEN Returned(BoltIncompatibleValue, s)
  ELSE IF NodePanics(b) THEN Panicked(s)
  ELSE Returned(Nil, Bind(DropPage(s, b), b.at \o <<key>>, BucketEntry(TRUE)))

BoltCreateBucket(s, b, key) ==
  IF Len(key) = 0 THEN Returned(BoltBucketNameRequired, s)
  ELSE CreateBucketAt(s, b, key, BoltSeek(s, b, key))

\* a removal that leaves what is below path
Unbind_KeyOnly(s, path) == [p \in DOMAIN s \ {path} |-> s[p]]

\* the store without the entries at or below path
Unbind(s, path) == [p \in {q \in DOMAIN s : ~IsPrefix(path, q)} |-> s[p]]

\* Bucket.DeleteBucket(key), the cursor having sought the key: deletes the
\* sub-bucket with everything below it
DeleteBucketAt(s, b, key, r) ==
  IF r.panic THEN Panicked(s)
  ELSE IF ~SeekExact(r, key) THEN Returned(BoltBucketNotFound, s)
  ELSE IF ~SeekIsBucket(r) THEN Returned(BoltIncompatibleValue, s)
  ELSE Returned(Nil, Unbind(s, b.at \o <<key>>))

BoltDeleteBucket(s, b, key) == DeleteBucketAt(s, b, key, BoltSeek(s, b, key))

\* Bucket.Delete(key), the cursor having sought the key: deletes the value; no
\* error for an unbound key
DeleteAt(s, b, key, r) ==
  IF r.panic THEN Panicked(s)
  ELSE IF SeekIsBucket(r) THEN Returned(BoltIncompatibleValue, s)
  ELSE IF NodePanics(b) THEN Panicked(s)
  ELSE IF SeekExact(r, key) THEN Returned(Nil, Unbind(s, b.at \o <<key>>))
  ELSE Returned(Nil, s)

BoltDelete(s, b, key) == DeleteAt(s, b, key, BoltSeek(s, b, key))

\* the keys of a set in byte order
RECURSIVE SortKeys(_)
SortKeys(S) == IF S = {} THEN <<>> ELSE <<Least(S)>> \o SortKeys(S \ {Least(S)})

\* Cursor.First/Next: the (key, value) pairs a cursor of b yields over the
\* sorted keys ks, a bucket's value being nil
CursorOver(s, b, ks) ==
  [panic |-> FALSE,
   items |-> [i \in 1..Len(ks) |->
                [k |-> ks[i], vnil |-> s[b.at \o <<ks[i]>>].kind = "bucket"]]]

BoltCursor(s, b) ==
  IF CursorPanics(b) THEN [panic |-> TRUE, items |-> <<>>]
  ELSE CursorOver(s, b, SortKeys(Children(s, b)))

(***************************************************************************)
(* The Bucket interface: RootBucket{tx} and SubBucket{b, path, prev}.      *)
(* Every method's result carries `panic`: whether the Bolt call under it   *)
(* panicked instead of returning.                                          *)
(***************************************************************************)
\* NewRootBucket(tx)
NewRootBucket == [type |-> "root"]

\* &SubBucket{b, path, prev}
NewSubBucket(b, path, prev) == [type |-> "sub", b |-> b, path |-> path, prev |-> prev]

\* the nil Bucket
NilBucket == [type |-> "nil"]

\* a Prev that returns nil for every bucket
Prev_Nil(h) == NilBucket

\* RootBucket.Prev, SubBucket.Prev
Prev(h) == IF h.type = "root" THEN NilBucket ELSE h.prev

\* RootBucket.String, SubBucket.String
String(h) == IF h.type = "root" THEN <<Slash>> ELSE h.path

\* the bucket a handle's Bolt calls go to: rl.tx for the root, bl.b otherwise
BoltOf(h) == IF h.type = "root" THEN TxRoot ELSE h.b

\* a SubBucket.Get that does not look for a bucket at the key
SubBucketGetOf_NoBucketTest(b, bucket) ==
  IF b.panic THEN [panic |-> TRUE, nil |-> TRUE, err |-> Nil]
  ELSE IF b.nil THEN [panic |-> FALSE, nil |-> TRUE, err |-> ErrNoSuchKey]
  ELSE [panic |-> FALSE, nil |-> FALSE, val |-> b.val, err |-> Nil]

\* SubBucket.Get, b being what bl.b.Get(key) and bucket what bl.b.Bucket(key)
\* returns
SubBucketGetOf(b, bucket) ==
  IF b.panic THEN [panic |-> TRUE, nil |-> TRUE, err |-> Nil]
  ELSE IF b.nil
    THEN IF bucket.panic THEN [panic |-> TRUE, nil |-> TRUE, err |-> Nil]
         ELSE IF ~bucket.nil
           THEN [panic |-> FALSE, nil |-> TRUE,
                 err |-> NewError("key is a bucket, not a value")]
         ELSE [panic |-> FALSE, nil |-> TRUE, err |-> ErrNoSuchKey]
  ELSE [panic |-> FALSE, nil |-> FALSE, val |-> b.val, err |-> Nil]

SubBucketGet(s, bl, key) ==
  SubBucketGetOf(BoltGet(s, bl.b, key), BoltBucket(s, bl.b, key))

\* RootBucket.Get
RootBucketGet(s, rl, key) == [panic |-> FALSE, nil |-> TRUE, err |-> ErrNoKeysAtRoot]

Get(s, h, key) ==
  IF h.type = "root" THEN RootBucketGet(s, h, key) ELSE SubBucketGet(s, h, key)

\* a RootBucket.Cd that leaves the leading slash out of the path
RootBucketCdOf_NoSlash(rl, key, b) ==
  IF b.panic THEN [panic |-> TRUE, b |-> rl, err |-> Nil]
  ELSE IF b.nil THEN [panic |-> FALSE, b |-> rl, err |-> ErrNoSuchBucket]
  ELSE [panic |-> FALSE, b |-> NewSubBucket(b.b, key, rl), err |-> Nil]

\* RootBucket.Cd, b being what rl.tx.Bucket(key) returns
RootBucketCdOf(rl, key, b) ==
  IF b.panic THEN [panic |-> TRUE, b |-> rl, err |-> Nil]
  ELSE IF b.nil THEN [panic |-> FALSE, b |-> rl, err |-> ErrNoSuchBucket]
  ELSE [panic |-> FALSE, b |-> NewSubBucket(b.b, <<Slash>> \o key, rl), err |-> Nil]

RootBucketCd(s, rl, key) == RootBucketCdOf(rl, key, BoltBucket(s, TxRoot, key))

\* a SubBucket.Cd that does not look for a value at the key
SubBucketCdOf_NoValueTest(bl, key, b, g) ==
  IF b.panic THEN [panic |-> TRUE, b |-> bl, err |-> Nil]
  ELSE IF b.nil THEN [panic |-> FALSE, b |-> bl, err |-> ErrNoSuchBucket]
  ELSE [panic |-> FALSE,
        b |-> NewSubBucket(b.b, bl.path \o <<Slash>> \o key, bl), err |-> Nil]

\* a SubBucket.Cd that makes the path of the key alone
SubBucketCdOf_KeyOnly(bl, key, b, g) ==
  IF b.panic THEN [panic |-> TRUE, b |-> bl, err |-> Nil]
  ELSE IF b.nil
    THEN IF g.panic THEN [panic |-> TRUE, b |-> bl, err |-> Nil]
         ELSE IF g.err = Nil
           THEN [panic |-> FALSE, b |-> bl,
                 err |-> NewError("key is a value, not a bucket")]
         ELSE [panic |-> FALSE, b |-> bl, err |-> ErrNoSuchBucket]
  ELSE [panic |-> FALSE, b |-> NewSubBucket(b.b, <<Slash>> \o key, bl), err |-> Nil]

\* SubBucket.Cd, b being what bl.b.Bucket(key) and g what bl.Get(key) returns
SubBucketCdOf(bl, key, b, g) ==
  IF b.panic THEN [panic |-> TRUE, b |-> bl, err |-> Nil]
  ELSE IF b.nil
    THEN IF g.panic THEN [panic |-> TRUE, b |-> bl, err |-> Nil]
         ELSE IF g.err = Nil
           THEN [panic |-> FALSE, b |-> bl,
                 err |-> NewError("key is a value, not a bucket")]
         ELSE [panic |-> FALSE, b |-> bl, err |-> ErrNoSuchBucket]
  ELSE [panic |-> FALSE,
        b |-> NewSubBucket(b.b, bl.path \o <<Slash>> \o key, bl), err |-> Nil]

SubBucketCd(s, bl, key) ==
  SubBucketCdOf(bl, key, BoltBucket(s, bl.b, key), SubBucketGet(s, bl, key))

Cd(s, h, key) ==
  IF h.type = "root" THEN RootBucketCd(s, h, key) ELSE SubBucketCd(s, h, key)

\* the method returns the wrapped error of a failed Bolt call r, or nil
Wrapped(s, r, err) ==
  IF r.panic THEN r
  ELSE IF r.err # Nil THEN Returned(err, s)
  ELSE r

\* fmt.Errorf("unable to store '%v' at '%v': %v", value, key, err)
StoreError(value, key, r) ==
  [id |-> "new", msg |-> "unable to store", value |-> value, key |-> key,
   cause |-> r.err.msg]

\* a RootBucket.Put that stores the value in the transaction's root bucket
RootBucketPut_Stores(s, rl, key, value) ==
  Wrapped(s, BoltPut(s, TxRoot, key, value),
          StoreError(value, key, BoltPut(s, TxRoot, key, value)))

\* RootBucket.Put
RootBucketPut(s, rl, key, value) == Returned(ErrNoKeysAtRoot, s)

\* SubBucket.Put, r being what bl.b.Put returns
SubBucketPutOf(s, key, value, r) == Wrapped(s, r, StoreError(value, key, r))

SubBucketPut(s, bl, key, value) ==
  SubBucketPutOf(s, key, value, BoltPut(s, bl.b, key, value))

Put(s, h, key, value) ==
  IF h.type = "root" THEN RootBucketPut(s, h, key, value) ELSE SubBucketPut(s, h, key, value)

\* RootBucket.Mkdir, SubBucket.Mkdir, r being what CreateBucket returns
MkdirOf(s, key, r) ==
  Wrapped(s, r, Errorf("unable to create bucket at key", key, r.err))

Mkdir(s, h, key) == MkdirOf(s, key, BoltCreateBucket(s, BoltOf(h), key))

\* RootBucket.Rm, r being what rl.tx.DeleteBucket returns
RootBucketRmOf(s, key, r) ==
  Wrapped(s, r, Errorf("unable to delete bucket at key", key, r.err))

RootBucketRm(s, rl, key) == RootBucketRmOf(s, key, BoltDeleteBucket(s, TxRoot, key))

\* SubBucket.Rm from its test of err on, r being the delete's result
SubBucketRmOf(s, key, r) == Wrapped(s, r, Errorf("unable to delete", key, r.err))

\* a SubBucket.Rm that calls Delete for a bucket and DeleteBucket for a value
SubBucketRmAt_Swapped(s, bl, key, c) ==
  IF c.panic THEN Panicked(s)
  ELSE IF c.found /\ c.k = key
    THEN IF c.entry.kind = "bucket"
           THEN SubBucketRmOf(s, key, BoltDelete(s, bl.b, key))
           ELSE SubBucketRmOf(s, key, BoltDeleteBucket(s, bl.b, key))
  ELSE SubBucketRmOf(s, key, Returned(NewError("no such key"), s))

\* SubBucket.Rm, c being where c.Seek(keyBytes) put the cursor
SubBucketRmAt(s, bl, key, c) ==
  IF c.panic THEN Panicked(s)
  ELSE IF c.found /\ c.k = key
    THEN IF c.entry.kind = "bucket"
           THEN SubBucketRmOf(s, key, BoltDeleteBucket(s, bl.b, key))
           ELSE SubBucketRmOf(s, key, BoltDelete(s, bl.b, key))
  ELSE SubBucketRmOf(s, key, Returned(NewError("no such key"), s))

SubBucketRm(s, bl, key) == SubBucketRmAt(s, bl, key, BoltSeek(s, bl.b, key))

Rm(s, h, key) ==
  IF h.type = "root" THEN RootBucketRm(s, h, key) ELSE SubBucketRm(s, h, key)

\* a list that suffixes nothing
list_NoSuffix(curr) == [i \in 1..Len(curr.items) |-> curr.items[i].k]

\* list(curr): every key, a bucket's suffixed with a slash
list(curr) ==
  [i \in 1..Len(curr.items) |->
     IF curr.items[i].vnil THEN curr.items[i].k \o <<Slash>> ELSE curr.items[i].k]

\* RootBucket.List, SubBucket.List, curr being the bucket's cursor
ListOf(curr) == [panic |-> curr.panic, list |-> list(curr)]

List(s, h) == ListOf(BoltCursor(s, BoltOf(h)))

\* buckets(curr, withTrailingSlash): the keys of the buckets, suffixed with a
\* slash if asked for
bucketsOf(items, withTrailingSlash) ==
  [i \in 1..Len(items) |->
     IF withTrailingSlash THEN items[i].k \o <<Slash>> ELSE items[i].k]

\* the items a cursor yields with a nil value (v != nil: continue)
NilValued(item) == item.vnil

buckets(curr, withTrailingSlash) ==
  bucketsOf(SelectSeq(curr.items, NilValued), withTrailingSlash)

\* RootBucket.Buckets, SubBucket.Buckets, curr being the bucket's cursor
BucketsOf(curr, withTrailingSlash) ==
  [panic |-> curr.panic, list |-> buckets(curr, withTrailingSlash)]

Buckets(s, h, withTrailingSlash) ==
  BucketsOf(BoltCursor(s, BoltOf(h)), withTrailingSlash)

(***************************************************************************)
(* The path resolver.                                                      *)
(***************************************************************************)
RECURSIVE travelLoop(_, _, _, _, _, _)
RECURSIVE travelCd(_, _, _, _, _, _)

\* a loop that passes empty parts to Cd
travelLoop_NoSkip(s, h, err, parts, i, cds) ==
  IF ~(err = Nil /\ h # NilBucket /\ i <= Len(parts))
    THEN [panic |-> FALSE, b |-> h, err |-> err, cds |-> cds]
  ELSE IF parts[i] = DotDot
    THEN IF Prev(h) # NilBucket
           THEN travelLoop(s, Prev(h), err, parts, i + 1, cds)
           ELSE travelLoop(s, h, err, parts, i + 1, cds)
  ELSE IF parts[i] # Dot THEN travelCd(s, h, parts, i, cds, Cd(s, h, parts[i]))
  ELSE travelLoop(s, h, err, parts, i + 1, cds)

\* a loop that stays where it is on ".."
travelLoop_DotDotStays(s, h, err, parts, i, cds) ==
  IF ~(err = Nil /\ h # NilBucket /\ i <= Len(parts))
    THEN [panic |-> FALSE, b |-> h, err |-> err, cds |-> cds]
  ELSE IF parts[i] = Empty \/ parts[i] = DotDot \/ parts[i] = Dot
    THEN travelLoop(s, h, err, parts, i + 1, cds)
  ELSE travelCd(s, h, parts, i, cds, Cd(s, h, parts[i]))

\* a loop that takes a path with a leading slash from the root
travelLoop_SlashIsRoot(s, h, err, parts, i, cds) ==
  IF ~(err = Nil /\ h # NilBucket /\ i <= Len(parts))
    THEN [panic |-> FALSE, b |-> h, err |-> err, cds |-> cds]
  ELSE IF parts[i] = Empty
    THEN travelLoop(s, IF i = 1 /\ Len(parts) > 1 THEN NewRootBucket ELSE h,
                    err, parts, i + 1, cds)
  ELSE IF parts[i] = DotDot
    THEN IF Prev(h) # NilBucket
           THEN travelLoop(s, Prev(h), err, parts, i + 1, cds)
           ELSE travelLoop(s, h, err, parts, i + 1, cds)
  ELSE IF parts[i] # Dot THEN travelCd(s, h, parts, i, cds, Cd(s, h, parts[i]))
  ELSE travelLoop(s, h, err, parts, i + 1, cds)

\* a loop that goes up on ".." only when it is the first part
travelLoop_DotDotFirstOnly(s, h, err, parts, i, cds) ==
  IF ~(err = Nil /\ h # NilBucket /\ i <= Len(parts))
    THEN [panic |-> FALSE, b |-> h, err |-> err, cds |-> cds]
  ELSE IF parts[i] = Empty THEN travelLoop(s, h, err, parts, i + 1, cds)
  ELSE IF parts[i] = DotDot
    THEN IF Prev(h) # NilBucket /\ i = 1
           THEN travelLoop(s, Prev(h), err, parts, i + 1, cds)
           ELSE travelLoop(s, h, err, parts, i + 1, cds)
  ELSE IF parts[i] # Dot THEN travelCd(s, h, parts, i, cds, Cd(s, h, parts[i]))
  ELSE travelLoop(s, h, err, parts, i + 1, cds)

\* the loop of travel from part i (1-based) on; cds counts the calls of Cd
travelLoop(s, h, err, parts, i, cds) ==
  IF ~(err = Nil /\ h # NilBucket /\ i <= Len(parts))
    THEN [panic |-> FALSE, b |-> h, err |-> err, cds |-> cds]
  ELSE IF parts[i] = Empty THEN travelLoop(s, h, err, parts, i + 1, cds)
  ELSE IF parts[i] = DotDot
    THEN IF Prev(h) # NilBucket
           THEN travelLoop(s, Prev(h), err, parts, i + 1, cds)
           ELSE travelLoop(s, h, err, parts, i + 1, cds)
  ELSE IF parts[i] # Dot THEN travelCd(s, h, parts, i, cds, Cd(s, h, parts[i]))
  ELSE travelLoop(s, h, err, parts, i + 1, cds)

\* a loop that goes on after a Cd that failed, from the handle Cd returned
travelCd_GoesOn(s, h, parts, i, cds, r) ==
  IF r.panic THEN [panic |-> TRUE, b |-> h, err |-> Nil, cds |-> cds + 1]
  ELSE travelLoop(s, r.b, Nil, parts, i + 1, cds + 1)

\* cwd, err = cwd.Cd(part), r being what Cd returns
travelCd(s, h, parts, i, cds, r) ==
  IF r.panic THEN [panic |-> TRUE, b |-> h, err |-> Nil, cds |-> cds + 1]
  ELSE travelLoop(s, r.b, r.err, parts, i + 1, cds + 1)

\* travel(cwd, path)
travel(s, h, path) == travelLoop(s, h, Nil, Split(path), 1, 0)

\* parseKeyPath with a slash in the path, t being what travel returns
parseKeyPathOf(key, t) == [panic |-> t.panic, b |-> t.b, key |-> key, err |-> t.err]

\* a parseKeyPath that cuts the path at its first slash
parseKeyPath_FirstSlash(s, h, path) ==
  IF LastIndex(path) < 0
    THEN [panic |-> FALSE, b |-> h, key |-> path, err |-> Nil]
  ELSE parseKeyPathOf(SubSeq(path, Min(SlashPositions(path)) + 1, Len(path)),
                      travel(s, h, SubSeq(path, 1, Min(SlashPositions(path)) - 1)))

\* parseKeyPath(cwd, path)
parseKeyPath(s, h, path) ==
  IF LastIndex(path) < 0
    THEN [panic |-> FALSE, b |-> h, key |-> path, err |-> Nil]
  ELSE parseKeyPathOf(SubSeq(path, LastIndex(path) + 2, Len(path)),
                      travel(s, h, SubSeq(path, 1, LastIndex(path))))

(***************************************************************************)
(* The shell: the process-wide cwd, the prompt, and one handler per        *)
(* command.  `last` records the last command run, the error it reported    *)
(* through c.Err (Nil for none) and the lines it printed; `crashed` holds  *)
(* once a handler panicked, which ends the process.                        *)
(***************************************************************************)
\* the paths given to each command
LsPaths == { <<"A">>, <<"B", "/", ".", ".">> }
CdPaths ==
  { <<"A">>, <<".", ".">>, <<".">>, <<>>,
    <<"A", "/", "B">>, <<"A", "/", "C">>,
    <<"A", "/", "/", "B", "/", ".", ".", "/", "C">> }
GetPaths == { <<"X">>, <<"A">> }
PutPaths == { <<"X">>, <<>> }
MkdirPaths == { <<"A">>, <<"A", "/", "B">>, <<"A", "/", "C">> }
RmPaths == { <<"A">>, <<"X">>, <<".", ".", "/", "A">> }

\* unicode.IsGraphic, on the characters used
IsGraphic(c) == c \in {".", "/", "A", "B", "C", "X"}

\* isPrintable(s)
isPrintable(s) == \A i \in 1..Len(s) : IsGraphic(s[i])

\* printableList(s)
printableList(s) == SelectSeq(s, isPrintable)

\* the *bolt.Bucket objects are shared: a DeleteBucket that took store s to s2
\* is seen by every handle of a bucket it deleted
RECURSIVE Sync(_, _, _)
Sync(h, s, s2) ==
  IF h.type # "sub" THEN h
  ELSE [h EXCEPT !.prev = Sync(h.prev, s, s2),
                 !.b = IF ~h.b.dead /\ h.b.at \notin DOMAIN s2
                         THEN [at |-> h.b.at, dead |-> TRUE, page |-> s[h.b.at].page]
                         ELSE h.b]

Panic == [id |-> "panic"]
EntryLine(e) == [t |-> "entry", s |-> e]
ValueLine(v) == [t |-> "value", v |-> v]
CountLine(n, omitted) == [t |-> "count", n |-> n, omitted |-> omitted]

\* what a command did: the error it reported and the lines it printed
Done(cmd, args, err, out) == [cmd |-> cmd, args |-> args, err |-> err, out |-> out]

\* the handler reported err through c.Err and returned, or it panicked: the
\* state st is left as it is
Report(st, cmd, args, err) ==
  [st EXCEPT !.last = Done(cmd, args, err, <<>>), !.crashed = (err = Panic)]

\* a walk that stops after one step
ToRoot_OneStep(h) == IF Prev(h) # NilBucket THEN Prev(h) ELSE h

\* the root handle, reached by walking Prev
RECURSIVE ToRoot(_)
ToRoot(h) == IF Prev(h) # NilBucket THEN ToRoot(Prev(h)) ELSE h

\* Each handler maps the state st it runs in to the state it leaves.

\* lsCmd from contents := target.List() on
lsCmdList(st, args, contents, entries) ==
  IF contents.panic THEN Report(st, "ls", args, Panic)
  ELSE [st EXCEPT !.last =
          Done("ls", args, Nil,
               [i \in 1..Len(entries) |-> EntryLine(entries[i])]
                 \o <<CountLine(Len(contents.list), Len(contents.list) - Len(entries))>>)]

\* lsCmd, t being the target (and the error) travel returns
lsCmdAt(st, args, t) ==
  IF t.panic THEN Report(st, "ls", args, Panic)
  ELSE IF t.err # Nil THEN Report(st, "ls", args, t.err)
  ELSE lsCmdList(st, args, List(st.store, t.b), printableList(List(st.store, t.b).list))

lsCmd(st, args) ==
  IF Len(args) > 0 THEN lsCmdAt(st, args, travel(st.store, st.cwd, args[1]))
  ELSE lsCmdAt(st, args, [panic |-> FALSE, b |-> st.cwd, err |-> Nil])

\* getCmd from data, err = target.Get(key) on
getCmdGot(st, args, g) ==
  IF g.panic THEN Report(st, "get", args, Panic)
  ELSE IF g.err # Nil THEN Report(st, "get", args, g.err)
  ELSE [st EXCEPT !.last = Done("get", args, Nil, <<ValueLine(g.val)>>)]

\* getCmd, t being what parseKeyPath returns
getCmdAt(st, args, t) ==
  IF t.panic THEN Report(st, "get", args, Panic)
  ELSE IF t.err # Nil THEN Report(st, "get", args, t.err)
  ELSE getCmdGot(st, args, Get(st.store, t.b, t.key))

getCmd(st, args) ==
  IF Len(args) < 1 THEN Report(st, "get", args, NewError("get: missing key name"))
  ELSE getCmdAt(st, args, parseKeyPath(st.store, st.cwd, args[1]))

\* the end of a handler that ends with c.Err(target.Op(key ...)), r being the
\* operation's result
Apply(st, cmd, args, r) ==
  IF r.panic THEN Report(st, cmd, args, Panic)
  ELSE [st EXCEPT !.store = r.store,
                  !.cwd = Sync(st.cwd, st.store, r.store),
                  !.last = Done(cmd, args, r.err, <<>>)]

\* putCmd, t being what parseKeyPath returns
putCmdAt(st, args, t) ==
  IF t.panic THEN Report(st, "put", args, Panic)
  ELSE IF t.err # Nil THEN Report(st, "put", args, t.err)
  ELSE Apply(st, "put", args, Put(st.store, t.b, t.key, args[2]))

putCmd(st, args) ==
  IF Len(args) = 0 THEN Report(st, "put", args, NewError("put: missing key name and value"))
  ELSE IF Len(args) = 1 THEN Report(st, "put", args, NewError("put: missing value"))
  ELSE putCmdAt(st, args, parseKeyPath(st.store, st.cwd, args[1]))

\* a cd that leaves the prompt as it is
SetCwd_KeepsPrompt(st, args, b) ==
  [st EXCEPT !.cwd = b, !.last = Done("cd", args, Nil, <<>>)]

\* cwd = b and shell.SetPrompt
SetCwd(st, args, b) ==
  [st EXCEPT !.cwd = b, !.prompt = String(b), !.last = Done("cd", args, Nil, <<>>)]

\* a cd that commits whatever travel returns
cdCmdAt_CommitAlways(st, args, t) ==
  IF t.panic THEN Report(st, "cd", args, Panic) ELSE SetCwd(st, args, t.b)

\* cdCmd with an argument, t being what travel returns
cdCmdAt(st, args, t) ==
  IF t.panic THEN Report(st, "cd", args, Panic)
  ELSE IF t.err # Nil THEN Report(st, "cd", args, t.err)
  ELSE SetCwd(st, args, t.b)

cdCmd(st, args) ==
  IF Len(args) < 1 THEN SetCwd(st, args, ToRoot(st.cwd))
  ELSE cdCmdAt(st, args, travel(st.store, st.cwd, args[1]))

\* a mkdir that creates the bucket where travel stopped, and then reports
\* travel's error
mkdirCmdAt_CreatesAnyway(st, args, t) ==
  IF t.panic THEN Report(st, "mkdir", args, Panic)
  ELSE IF t.err # Nil
    THEN [Apply(st, "mkdir", args, Mkdir(st.store, t.b, t.key))
            EXCEPT !.last = Done("mkdir", args, t.err, <<>>)]
  ELSE Apply(st, "mkdir", args, Mkdir(st.store, t.b, t.key))

\* mkdirCmd, t being what parseKeyPath returns
mkdirCmdAt(st, args, t) ==
  IF t.panic THEN Report(st, "mkdir", args, Panic)
  ELSE IF t.err # Nil THEN Report(st, "mkdir", args, t.err)
  ELSE Apply(st, "mkdir", args, Mkdir(st.store, t.b, t.key))

mkdirCmd(st, args) ==
  IF Len(args) < 1 THEN Report(st, "mkdir", args, NewError("mkdir: missing bucket name"))
  ELSE mkdirCmdAt(st, args, parseKeyPath(st.store, st.cwd, args[1]))

\* rmCmd, t being what parseKeyPath returns
rmCmdAt(st, args, t) ==
  IF t.panic THEN Report(st, "rm", args, Panic)
  ELSE IF t.err # Nil THEN Report(st, "rm", args, t.err)
  ELSE Apply(st, "rm", args, Rm(st.store, t.b, t.key))

rmCmd(st, args) ==
  IF Len(args) < 1 THEN Report(st, "rm", args, NewError("rm: missing bucket or key name"))
  ELSE rmCmdAt(st, args, parseKeyPath(st.store, st.cwd, args[1]))

(***************************************************************************)
(* The session: main opens the database, binds cwd to the root bucket and  *)
(* sets the prompt; the shell then runs one command after the other.       *)
(***************************************************************************)
State == [store |-> store, cwd |-> cwd, prompt |-> prompt, last |-> last,
          crashed |-> crashed]

Init ==
  /\ store = <<>>
  /\ cwd = NewRootBucket
  /\ prompt = String(NewRootBucket)
  /\ last = Done("start", <<>>, Nil, <<>>)
  /\ crashed = FALSE
  /\ ended = FALSE
  /\ disk = <<>>

\* the shell runs a handler, which leaves state n; a panic ended the process
Run(n) ==
  /\ ~crashed /\ ~ended
  /\ Cardinality(DOMAIN n.store) <= MaxEntries
  /\ store' = n.store
  /\ cwd' = n.cwd
  /\ prompt' = n.prompt
  /\ last' = n.last
  /\ crashed' = n.crashed
  /\ UNCHANGED <<ended, disk>>

\* the argument lists the shell passes: none, or a path
Args(paths) == {<<>>} \cup {<<p>> : p \in paths}
PutArgs == Args(PutPaths) \cup {<<p, v>> : p \in PutPaths, v \in Values}

Ls == \E args \in Args(LsPaths) : Run(lsCmd(State, args))
GetKey == \E args \in Args(GetPaths) : Run(getCmd(State, args))
PutKey == \E args \in PutArgs : Run(putCmd(State, args))
ChangeDir == \E args \in Args(CdPaths) : Run(cdCmd(State, args))
MakeDir == \E args \in Args(MkdirPaths) : Run(mkdirCmd(State, args))
Remove == \E args \in Args(RmPaths) : Run(rmCmd(State, args))

Next == Ls \/ GetKey \/ PutKey \/ ChangeDir \/ MakeDir \/ Remove

Spec == Init /\ [][Next]_vars

(***************************************************************************)
(* Completion.  The line editor calls a command's completer with the word  *)
(* being typed; the completer returns the candidates.  `last` records the  *)
(* call and the candidates returned (a completer has no way to report an   *)
(* error).                                                                 *)
(***************************************************************************)
Candidate(c) == [t |-> "candidate", s |-> c]

\* a[:len(a)-1]
AllButLast(a) == SubSeq(a, 1, Len(a) - 1)

\* a partialBucketString that returns no error when travel fails
partialBucketStringOf_DropsError(a, t) ==
  [panic |-> t.panic, b |-> t.b, name |-> Join(a) \o <<Slash>>, err |-> Nil]

\* partialBucketString with parts left in a, t being what travel returns
partialBucketStringOf(a, t) ==
  IF t.panic THEN [panic |-> TRUE, b |-> t.b, name |-> <<>>, err |-> Nil]
  ELSE IF t.err # Nil THEN [panic |-> FALSE, b |-> t.b, name |-> <<>>, err |-> t.err]
  ELSE [panic |-> FALSE, b |-> t.b, name |-> Join(a) \o <<Slash>>, err |-> Nil]

\* partialBucketString(s), from the current position h
partialBucketString(s, h, str) ==
  IF Len(AllButLast(Split(str))) > 0
    THEN partialBucketStringOf(AllButLast(Split(str)),
                               travel(s, h, Join(AllButLast(Split(str)))))
  ELSE [panic |-> FALSE, b |-> h, name |-> <<>>, err |-> Nil]

\* prefixBucket(s, name)
prefixBucket(s, name) == [i \in 1..Len(s) |-> name \o s[i]]

\* the completer returns the candidates cs
Completed(st, cmd, current, cs) ==
  [st EXCEPT !.last = Done(cmd, <<current>>, Nil,
                           [i \in 1..Len(cs) |-> Candidate(cs[i])])]

\* the end of a completer: l is the listing of the target, name the prefix
completerList(st, cmd, current, name, l) ==
  IF l.panic THEN Report(st, cmd, <<current>>, Panic)
  ELSE Completed(st, cmd, current, prefixBucket(printableList(l.list), name))

\* bucketCompleter, t being what partialBucketString returns
bucketCompleterAt(st, current, t) ==
  IF t.panic THEN Report(st, "bucketCompleter", <<current>>, Panic)
  ELSE IF t.err # Nil THEN Completed(st, "bucketCompleter", current, <<>>)
  ELSE completerList(st, "bucketCompleter", current, t.name,
                     Buckets(st.store, t.b, TRUE))

bucketCompleter(st, current) ==
  bucketCompleterAt(st, current, partialBucketString(st.store, st.cwd, current))

\* keyCompleter, t being what partialBucketString returns
keyCompleterAt(st, current, t) ==
  IF t.panic THEN Report(st, "keyCompleter", <<current>>, Panic)
  ELSE IF t.err # Nil THEN Completed(st, "keyCompleter", current, <<>>)
  ELSE completerList(st, "keyCompleter", current, t.name, List(st.store, t.b))

keyCompleter(st, current) ==
  keyCompleterAt(st, current, partialBucketString(st.store, st.cwd, current))

\* the words being typed when completion is asked for
PartialPaths == { <<"A", "/">>, <<"X", "/", "A">> }

BucketComplete == \E current \in PartialPaths : Run(bucketCompleter(State, current))
KeyComplete == \E current \in PartialPaths : Run(keyCompleter(State, current))

(***************************************************************************)
(* The end of the session.  The shell runs inside db.Update: when the      *)
(* function given to it returns, the transaction is committed and the      *)
(* database file holds what the session stored (disk).  os.Exit ends the   *)
(* process at once, with nothing committed.                                *)
(***************************************************************************)
\* db.Update commits once the function returns nil
Commit(cmd) ==
  /\ ended' = TRUE
  /\ disk' = store
  /\ last' = Done(cmd, <<>>, Nil, <<>>)
  /\ UNCHANGED <<store, cwd, prompt, crashed>>

\* the exit command stops the shell: shell.Run returns
Exit == ~crashed /\ ~ended /\ Commit("exit")

\* eofHandler closes the shell: shell.Run returns
Eof == ~crashed /\ ~ended /\ Commit("eof")

\* the count the shell passes to interruptHandler: the interrupts in a row
InterruptCount == IF last.cmd = "interrupt" THEN last.args[1] + 1 ELSE 1

\* interruptHandler(c, count, line)
interruptHandler(count) ==
  /\ last' = Done("interrupt", <<count>>, Nil,
                  IF count >= 2 THEN <<"Interrupted">>
                  ELSE <<"Press Ctrl-C once more to exit without saving the database">>)
  /\ ended' = (count >= 2)
  /\ UNCHANGED <<store, cwd, prompt, crashed, disk>>

Interrupt == ~crashed /\ ~ended /\ interruptHandler(InterruptCount)

SessionNext ==
  \/ Ls \/ GetKey \/ PutKey \/ ChangeDir \/ MakeDir \/ Remove
  \/ BucketComplete \/ KeyComplete
  \/ Exit \/ Eof \/ Interrupt

SessionSpec == Init /\ [][SessionNext]_vars

(***************************************************************************)
(* The Bucket interface on its own: a caller holds one handle (cwd, the    *)
(* root at first) and calls its methods one after the other, moving to the *)
(* handle that Cd or Prev returns.  `last` records the call, the error it  *)
(* returned and what else it returned.                                     *)
(***************************************************************************)
CallKeys == { <<"A">>, <<"X">> }

\* a call has returned: it leaves the store s and the caller at handle h
Called(op, args, err, out, s, h) ==
  /\ Cardinality(DOMAIN s) <= MaxEntries
  /\ store' = s
  /\ cwd' = h
  /\ last' = Done(op, args, err, out)
  /\ UNCHANGED <<prompt, crashed, ended, disk>>

CallCdOf(k, r) == ~r.panic /\ Called("Cd", <<k>>, r.err, <<>>, store, r.b)
CallCd == \E k \in CallKeys : CallCdOf(k, Cd(store, cwd, k))

CallPrev ==
  Prev(cwd) # NilBucket /\ Called("Prev", <<>>, Nil, <<>>, store, Prev(cwd))

CallGetOf(k, r) ==
  /\ ~r.panic
  /\ Called("Get", <<k>>, r.err, IF r.nil THEN <<>> ELSE <<ValueLine(r.val)>>,
            store, cwd)
CallGet == \E k \in CallKeys : CallGetOf(k, Get(store, cwd, k))

CallPutOf(k, v, r) == ~r.panic /\ Called("Put", <<k, v>>, r.err, <<>>, r.store, cwd)
CallPut == \E v \in Values : CallPutOf(<<"X">>, v, Put(store, cwd, <<"X">>, v))

CallMkdirOf(k, r) == ~r.panic /\ Called("Mkdir", <<k>>, r.err, <<>>, r.store, cwd)
CallMkdir == \E k \in CallKeys : CallMkdirOf(k, Mkdir(store, cwd, k))

CallRmOf(k, r) == ~r.panic /\ Called("Rm", <<k>>, r.err, <<>>, r.store, cwd)
CallRm == \E k \in CallKeys : CallRmOf(k, Rm(store, cwd, k))

CallListOf(r) ==
  /\ ~r.panic
  /\ Called("List", <<>>, Nil, [i \in 1..Len(r.list) |-> EntryLine(r.list[i])],
            store, cwd)
CallList == CallListOf(List(store, cwd))

BucketNext ==
  CallCd \/ CallPrev \/ CallGet \/ CallPut \/ CallMkdir \/ CallRm \/ CallList

BucketSpec == Init /\ [][BucketNext]_vars

(***************************************************************************)
(* The path resolver on its own: a caller that holds one handle (cwd, the  *)
(* root at first) fills the database through the handle and calls travel   *)
(* and parseKeyPath with it, moving to the handle they return when they    *)
(* return no error.  `last` records the call, the error it returned and,   *)
(* for parseKeyPath, the key it returned.                                  *)
(***************************************************************************)
TravelPaths ==
  { <<"A">>, <<".", ".">>, <<"/", "A">>, <<"A", "/", "X">>, <<"X", "/", ".", ".">> }
KeyPaths == { <<"A", "/", ".", ".">>, <<".">>, <<"X", "/", "A">> }

CallTravelOf(path, t) ==
  /\ ~t.panic
  /\ Called("travel", <<path>>, t.err, <<>>, store, IF t.err = Nil THEN t.b ELSE cwd)
CallTravel == \E path \in TravelPaths : CallTravelOf(path, travel(store, cwd, path))

CallParseKeyPathOf(path, t) ==
  /\ ~t.panic
  /\ Called("parseKeyPath", <<path>>, t.err, <<t.key>>, store,
            IF t.err = Nil THEN t.b ELSE cwd)
CallParseKeyPath ==
  \E path \in KeyPaths : CallParseKeyPathOf(path, parseKeyPath(store, cwd, path))

ResolverNext == CallMkdir \/ CallPut \/ CallRm \/ CallTravel \/ CallParseKeyPath

ResolverSpec == Init /\ [][ResolverNext]_vars

(***************************************************************************)
(* What the properties below range over.                                   *)
(***************************************************************************)
PathA == <<"A">>
PathX == <<"X">>
PathAB == <<"A", "/", "B">>
PathAC == <<"A", "/", "C">>
PathABupC == <<"A", "/", "/", "B", "/", ".", ".", "/", "C">>

\* the keys the properties try: a bucket's name, a value's key, the empty key
\* and a name the resolver reads as a segment, each bound in some buckets and
\* unbound in others
ProbeKeys == { <<"A">>, <<"X">>, <<>>, <<".", ".">> }

\* the handle travel builds for the bucket at key path p, from the root
RECURSIVE HandleAt(_, _)
HandleAt(s, p) ==
  IF p = <<>> THEN NewRootBucket
  ELSE Cd(s, HandleAt(s, SubSeq(p, 1, Len(p) - 1)), p[Len(p)]).b

BucketPaths(s) == {<<>>} \cup {p \in DOMAIN s : s[p].kind = "bucket"}

\* a handle of every container of the store
Containers(s) == {HandleAt(s, p) : p \in BucketPaths(s)}

\* the start handles the resolver is given: every container, and the current
\* position (whose bucket may have been removed)
Starts == Containers(store) \cup {cwd}

\* what travel returns, its count of Cd calls left out
Outcome(t) == [panic |-> t.panic, b |-> t.b, err |-> t.err]

(***************************************************************************)
(* C1: cd with a path commits the resolved handle as the current position  *)
(* (and shows it in the prompt) when travel succeeds; when travel returns  *)
(* an error, the current position and the prompt stay what they were and   *)
(* the error is reported.                                                  *)
(***************************************************************************)
C1_CdCommitsOnlyOnSuccess ==
  [][(last'.cmd = "cd" /\ Len(last'.args) = 1) =>
       LET t == travel(store, cwd, last'.args[1])
       IN /\ (~t.panic /\ t.err = Nil) =>
               (cwd' = t.b /\ prompt' = String(t.b) /\ last'.err = Nil)
          /\ (~t.panic /\ t.err # Nil) =>
               (cwd' = cwd /\ prompt' = prompt /\ last'.err = t.err)]_vars

\* cd A/B failed at B below a bucket, A having been entered on the way
C1_Witness ==
  /\ last.cmd = "cd" /\ last.args = <<PathAB>>
  /\ last.err = ErrNoSuchBucket
  /\ cwd.type = "sub"
  /\ Cd(store, cwd, <<"A">>).err = Nil
  /\ prompt = String(cwd)

(***************************************************************************)
(* C2: from the root of a store in which A is unbound, mkdir A; mkdir A/B; *)
(* cd A/B; put X hello; get X; cd ..; ls shows the path /A/B after the     *)
(* first cd, prints hello for get X, shows /A after cd .., and lists B/.   *)
(***************************************************************************)
C2_Scenario ==
  (~crashed /\ cwd = NewRootBucket /\ <<<<"A">>>> \notin DOMAIN store) =>
    LET s1 == mkdirCmd(State, <<PathA>>)
        s2 == mkdirCmd(s1, <<PathAB>>)
        s3 == cdCmd(s2, <<PathAB>>)
        s4 == putCmd(s3, <<PathX, "hello">>)
        s5 == getCmd(s4, <<PathX>>)
        s6 == cdCmd(s5, <<DotDot>>)
        s7 == lsCmd(s6, <<>>)
    IN /\ s3.prompt = <<"/", "A", "/", "B">> /\ String(s3.cwd) = s3.prompt
       /\ s5.last.err = Nil /\ s5.last.out = <<ValueLine("hello")>>
       /\ s6.prompt = <<"/", "A">> /\ String(s6.cwd) = s6.prompt
       /\ s7.last.err = Nil
       /\ \E i \in 1..Len(s7.last.out) : s7.last.out[i] = EntryLine(<<"B", "/">>)
       /\ ~s7.crashed

\* the scenario's last command has run where the scenario leaves the session
C2_Witness ==
  /\ last.cmd = "ls" /\ last.args = <<>> /\ last.err = Nil
  /\ \E i \in 1..Len(last.out) : last.out[i] = EntryLine(<<"B", "/">>)
  /\ prompt = <<"/", "A">>
  /\ <<<<"A">>, <<"B">>, <<"X">>>> \in DOMAIN store
  /\ store[<<<<"A">>, <<"B">>, <<"X">>>>] = ValEntry("hello")

(***************************************************************************)
(* C3: on a non-root container, for every key k not bound to a             *)
(* sub-container and every value v, put(k, v) succeeds and a get(k) that   *)
(* follows returns exactly v, also over an earlier value of k.             *)
(***************************************************************************)
PutThenGet(h, k, v) ==
  LET p == Put(store, h, k, v)
  IN /\ ~p.panic /\ p.err = Nil
     /\ Get(p.store, h, k) = [panic |-> FALSE, nil |-> FALSE, val |-> v, err |-> Nil]

NotABucket(s, h, k) ==
  (BoltOf(h).at \o <<k>>) \in DOMAIN s => s[BoltOf(h).at \o <<k>>].kind # "bucket"

\* as stated, for every key: refuted by the empty key, which Bolt's Put rejects
C3_PutGetEveryKey ==
  \A h \in Containers(store) \ {NewRootBucket} :
    \A k \in ProbeKeys, v \in Values :
      NotABucket(store, h, k) => PutThenGet(h, k, v)

\* C3, amended: the same for every key that is not empty
C3_PutGetNonEmptyKey ==
  \A h \in Containers(store) \ {NewRootBucket} :
    \A k \in ProbeKeys \ {Empty}, v \in Values :
      NotABucket(store, h, k) => PutThenGet(h, k, v)

\* get X has printed the empty value that a put X "" stored in a bucket
C3_Witness ==
  /\ last.cmd = "get" /\ last.args = <<PathX>> /\ last.err = Nil
  /\ last.out = <<ValueLine("")>>
  /\ cwd.type = "sub" /\ ~cwd.b.dead
  /\ store[cwd.b.at \o <<PathX>>] = ValEntry("")

(***************************************************************************)
(* C4: resolving ".." from a handle that has a parent succeeds and yields  *)
(* that parent; from the root it succeeds and yields the root, never an    *)
(* error and never the nil handle.                                         *)
(***************************************************************************)
C4_DotDotYieldsParent ==
  \A h \in Starts :
    LET t == travel(store, h, DotDot)
    IN /\ ~t.panic /\ t.err = Nil /\ t.b # NilBucket
       /\ h.type = "sub" => t.b = h.prev
       /\ h.type = "root" => t.b = NewRootBucket

\* cd .. has left /A/B for /A
C4_Witness ==
  /\ last.cmd = "cd" /\ last.args = <<DotDot>> /\ last.err = Nil
  /\ cwd.type = "sub" /\ prompt = <<"/", "A">>
  /\ <<<<"A">>, <<"B">>>> \in DOMAIN store

(***************************************************************************)
(* C5: a path whose segments are all "." or empty resolves, from every     *)
(* start handle, to the start handle itself, with no error and without a   *)
(* call of Cd.                                                             *)
(***************************************************************************)
DotOnlyPaths ==
  { <<>>, <<"/">>, <<"/", "/">>, <<".">>, <<".", "/", ".">>, <<"/", ".", "/">>,
    <<".", "/", "/", ".">> }

C5_DotOnlyPathsStay ==
  \A h \in Starts, p \in DotOnlyPaths :
    travel(store, h, p) = [panic |-> FALSE, b |-> h, err |-> Nil, cds |-> 0]

\* cd with the empty path, or with ".", has run inside a bucket
C5_Witness ==
  /\ last.cmd = "cd" /\ last.args \in {<<Empty>>, <<Dot>>} /\ last.err = Nil
  /\ cwd.type = "sub" /\ prompt = <<"/", "A", "/", "B">>

(***************************************************************************)
(* C6: from every start handle and in every store, the path "A//B/../C"    *)
(* resolves to the same outcome (the same bucket, or the same failure) as  *)
(* the path "A/C".                                                         *)
(***************************************************************************)
SameOutcome(h) ==
  Outcome(travel(store, h, PathABupC)) = Outcome(travel(store, h, PathAC))

\* as stated, for every store: refuted where A/C is a bucket and A/B is none
C6_SameAsShortPath == \A h \in Starts : SameOutcome(h)

\* whether B is a bucket of the bucket A below h, if A is one
BIsBucketOfA(h) ==
  (~Cd(store, h, <<"A">>).panic /\ Cd(store, h, <<"A">>).err = Nil)
    => ( /\ ~Cd(store, Cd(store, h, <<"A">>).b, <<"B">>).panic
         /\ Cd(store, Cd(store, h, <<"A">>).b, <<"B">>).err = Nil )

\* C6, amended: the two paths resolve to the same outcome wherever A/B is a
\* bucket if A is one
C6_SameWhereBExists == \A h \in Starts : BIsBucketOfA(h) => SameOutcome(h)

\* cd A//B/../C has entered /A/C
C6_Witness ==
  /\ last.cmd = "cd" /\ last.args = <<PathABupC>> /\ last.err = Nil
  /\ prompt = <<"/", "A", "/", "C">>
  /\ cwd = travel(store, NewRootBucket, PathAC).b
  /\ <<<<"A">>, <<"B">>>> \in DOMAIN store

(***************************************************************************)
(* C7: on any container and for every key k, Cd(k) and Get(k) never both   *)
(* succeed: if Cd succeeds, Get fails with "key is a bucket, not a value"; *)
(* if Get succeeds, Cd fails with "key is a value, not a bucket"; if k is  *)
(* unbound, Cd fails with ErrNoSuchBucket and Get with ErrNoSuchKey.       *)
(***************************************************************************)
Unbound(s, h, k) == (BoltOf(h).at \o <<k>>) \notin DOMAIN s

CdGetExclusive(h, k) ==
  LET c == Cd(store, h, k)
      g == Get(store, h, k)
  IN /\ ~c.panic /\ ~g.panic
     /\ ~(c.err = Nil /\ g.err = Nil)
     /\ c.err = Nil => g.err = NewError("key is a bucket, not a value")
     /\ g.err = Nil => c.err = NewError("key is a value, not a bucket")
     /\ Unbound(store, h, k) => (c.err = ErrNoSuchBucket /\ g.err = ErrNoSuchKey)

\* as stated, on any container: refuted on the root, whose Get returns
\* ErrNoKeysAtRoot for every key
C7_ExclusiveOnAnyContainer ==
  \A h \in Containers(store), k \in ProbeKeys : CdGetExclusive(h, k)

\* C7, amended: as stated on every container but the root; on the root, Get
\* fails with ErrNoKeysAtRoot for every key, Cd succeeds on a bucket and
\* fails with ErrNoSuchBucket on every other key
C7_ExclusiveBelowRoot ==
  /\ \A h \in Containers(store) \ {NewRootBucket}, k \in ProbeKeys :
       CdGetExclusive(h, k)
  /\ \A k \in ProbeKeys :
       /\ Get(store, NewRootBucket, k).err = ErrNoKeysAtRoot
       /\ ~Cd(store, NewRootBucket, k).panic
       /\ Unbound(store, NewRootBucket, k)
            <=> Cd(store, NewRootBucket, k).err = ErrNoSuchBucket
       /\ ~Unbound(store, NewRootBucket, k)
            <=> Cd(store, NewRootBucket, k).err = Nil

\* get A has reported that A is a bucket, inside a bucket that also holds a value
C7_Witness ==
  /\ last.cmd = "get" /\ last.args = <<PathA>>
  /\ last.err = NewError("key is a bucket, not a value")
  /\ cwd.type = "sub" /\ ~cwd.b.dead
  /\ Cd(store, cwd, <<"A">>).err = Nil
  /\ Get(store, cwd, <<"X">>).err = Nil
  /\ Cd(store, cwd, <<"X">>).err = NewError("key is a value, not a bucket")

(***************************************************************************)
(* C8: on any container, Rm(k) after a successful Mkdir(k) succeeds and    *)
(* removes the bucket, so that Cd(k) then fails with ErrNoSuchBucket;      *)
(* Rm(k) after a successful Put(k, v) succeeds and removes the value, so   *)
(* that Get(k) then fails with ErrNoSuchKey.                               *)
(***************************************************************************)
RmAfterMkdir(h, k) ==
  LET m == Mkdir(store, h, k)
      r == Rm(m.store, h, k)
  IN (~m.panic /\ m.err = Nil) =>
       /\ ~r.panic /\ r.err = Nil
       /\ Unbound(r.store, h, k)
       /\ Cd(r.store, h, k).err = ErrNoSuchBucket

RmAfterPut(h, k, v) ==
  LET p == Put(store, h, k, v)
      r == Rm(p.store, h, k)
  IN (~p.panic /\ p.err = Nil) =>
       /\ ~r.panic /\ r.err = Nil
       /\ Unbound(r.store, h, k)
       /\ Get(r.store, h, k).err = ErrNoSuchKey

C8_RmUndoesMkdirAndPut ==
  \A h \in Containers(store), k \in ProbeKeys :
    RmAfterMkdir(h, k) /\ \A v \in Values : RmAfterPut(h, k, v)

\* Rm(X) has removed what X was bound to in a bucket on which Mkdir has acted
C8_Witness ==
  /\ last.cmd = "Rm" /\ last.args = <<PathX>> /\ last.err = Nil
  /\ cwd.type = "sub" /\ ~cwd.b.dead
  /\ Get(store, cwd, <<"X">>).err = ErrNoSuchKey
  /\ Cd(store, cwd, <<"A">>).err = Nil

(***************************************************************************)
(* C9: on the root, Get(k) and Put(k, v) fail with ErrNoKeysAtRoot for     *)
(* every key and value, whatever the store holds, also for the key of a    *)
(* top-level bucket, and Put leaves the store as it is.                    *)
(***************************************************************************)
C9_NoValuesAtRoot ==
  /\ \A k \in ProbeKeys :
       /\ Get(store, NewRootBucket, k).err = ErrNoKeysAtRoot
       /\ ~Get(store, NewRootBucket, k).panic /\ Get(store, NewRootBucket, k).nil
       /\ \A v \in Values :
            Put(store, NewRootBucket, k, v) = Returned(ErrNoKeysAtRoot, store)
  /\ (~crashed /\ cwd = NewRootBucket) =>
       \A k \in ProbeKeys, v \in Values :
         /\ putCmd(State, <<k, v>>).store = store
         /\ putCmd(State, <<k, v>>).last.err = ErrNoKeysAtRoot
         /\ getCmd(State, <<k>>).last.err = ErrNoKeysAtRoot
         /\ getCmd(State, <<k>>).last.out = <<>>

\* put X hello at the root, which holds the bucket A, has failed and stored
\* nothing
C9_Witness ==
  /\ last.cmd = "put" /\ last.args = <<PathX, "hello">>
  /\ last.err = ErrNoKeysAtRoot
  /\ cwd = NewRootBucket
  /\ DOMAIN store = {<<<<"A">>>>} /\ store[<<<<"A">>>>].kind = "bucket"

(***************************************************************************)
(* C10: at every reachable current position, get with a single-segment key *)
(* that is bound to nothing in the current bucket reports ErrNoSuchKey     *)
(* below the root and ErrNoKeysAtRoot at the root, and prints no value.    *)
(* Refuted where the current bucket was removed after a bucket had been    *)
(* created in it: the get dereferences nil and ends the process.           *)
(***************************************************************************)
C10_GetUnboundReports ==
  ~crashed =>
    \A k \in ProbeKeys :
      Unbound(store, cwd, k) =>
        /\ ~getCmd(State, <<k>>).crashed
        /\ getCmd(State, <<k>>).last.err =
             (IF cwd.type = "root" THEN ErrNoKeysAtRoot ELSE ErrNoSuchKey)
        /\ getCmd(State, <<k>>).last.out = <<>>

(***************************************************************************)
(* C11: whenever a handler (ls, get, put, cd, mkdir, rm) ends by reporting *)
(* an error, for missing arguments, for a path prefix that does not        *)
(* resolve or for a failed bucket operation, the store and the current     *)
(* position are what they were before the handler.                         *)
(***************************************************************************)
C11_ErrorLeavesStateAlone ==
  [][(last'.err # Nil /\ last'.err # Panic) => (store' = store /\ cwd' = cwd)]_vars

\* mkdir A/B has failed inside the bucket A, where A/B already exists, after
\* its prefix resolved
C11_Witness ==
  /\ last.cmd = "mkdir" /\ last.args = <<PathAB>>
  /\ last.err = Errorf("unable to create bucket at key", <<"B">>, BoltBucketExists)
  /\ cwd.type = "sub" /\ ~cwd.b.dead
  /\ Cardinality(DOMAIN store) >= 2

(***************************************************************************)
(* C12: in every reachable state between commands, initially and after any *)
(* sequence of commands that succeed or fail, the path shown in the prompt *)
(* is String() of the current position.                                    *)
(***************************************************************************)
C12_PromptShowsCwd == prompt = String(cwd)

\* a cd has entered /A/B and a put has stored a value there since
C12_Witness ==
  /\ last.cmd = "put" /\ last.err = Nil
  /\ cwd.type = "sub" /\ cwd.prev.type = "sub"
  /\ prompt = <<"/", "A", "/", "B">>
  /\ store[<<<<"A">>, <<"B">>, <<"X">>>>] = ValEntry("")

(***************************************************************************)
(* C13: the path string of every handle reached by descents from the root  *)
(* is its parent's path string + "/" + the key it was reached by, and the  *)
(* root's path string is "/".                                              *)
(***************************************************************************)
\* the key a handle of a bucket was reached by
KeyOf(h) == h.b.at[Len(h.b.at)]

\* as stated, for every handle: refuted by the buckets of the root, whose path
\* is "/" + key, while the root's path + "/" + key begins with two slashes
C13_PathIsParentSlashKey ==
  /\ String(NewRootBucket) = <<Slash>>
  /\ \A h \in Containers(store) \ {NewRootBucket} :
       String(h) = String(h.prev) \o <<Slash>> \o KeyOf(h)

\* C13, amended: the path of a bucket of the root is "/" + key; the path of
\* every deeper bucket is its parent's path + "/" + key; the root's is "/"
C13_PathBelowRoot ==
  /\ String(NewRootBucket) = <<Slash>>
  /\ \A h \in Containers(store) \ {NewRootBucket} :
       /\ h.prev.type = "root" => String(h) = <<Slash>> \o KeyOf(h)
       /\ h.prev.type = "sub" => String(h) = String(h.prev) \o <<Slash>> \o KeyOf(h)
       /\ h.prev = HandleAt(store, SubSeq(h.b.at, 1, Len(h.b.at) - 1))

\* cd A/B has descended twice from the root
C13_Witness ==
  /\ last.cmd = "cd" /\ last.args = <<PathAB>> /\ last.err = Nil
  /\ cwd \in Containers(store)
  /\ String(cwd) = <<"/", "A", "/", "B">> /\ String(cwd.prev) = <<"/", "A">>
  /\ cwd.prev.prev = NewRootBucket

(***************************************************************************)
(* C14: from every reachable current position, cd without an argument      *)
(* ends (the chain of parents is finite) and leaves the current position   *)
(* at the root, the only handle without a parent, with the path "/".       *)
(***************************************************************************)
C14_CdAloneGoesToRoot ==
  /\ \A h \in Starts : (Prev(h) = NilBucket) <=> (h = NewRootBucket)
  /\ ~crashed =>
       /\ cdCmd(State, <<>>).cwd = NewRootBucket
       /\ cdCmd(State, <<>>).prompt = <<Slash>>
       /\ cdCmd(State, <<>>).last.err = Nil
       /\ ~cdCmd(State, <<>>).crashed
       /\ cdCmd(State, <<>>).store = store

\* cd has gone to the root of a store that holds /A/B
C14_Witness ==
  /\ last.cmd = "cd" /\ last.args = <<>> /\ last.err = Nil
  /\ cwd = NewRootBucket /\ prompt = <<Slash>>
  /\ <<<<"A">>, <<"B">>>> \in DOMAIN store

(***************************************************************************)
(* C15: on any container, root or not, Mkdir(k) fails when k is bound to a *)
(* bucket or to a value, and then the binding of k and the rest of the     *)
(* store are unchanged; when k is unbound it creates an empty bucket at k. *)
(***************************************************************************)
\* store t binds what store s binds, to the same values
SameBindings(s, t) ==
  /\ DOMAIN s \subseteq DOMAIN t
  /\ \A p \in DOMAIN s :
       /\ t[p].kind = s[p].kind
       /\ s[p].kind = "val" => t[p].val = s[p].val

MkdirFailsOnBound(h, k) ==
  LET m == Mkdir(store, h, k)
  IN ~Unbound(store, h, k) =>
       /\ ~m.panic /\ m.err # Nil
       /\ m.store = store

MkdirCreatesEmpty(h, k) ==
  LET m == Mkdir(store, h, k)
      at == BoltOf(h).at \o <<k>>
  IN Unbound(store, h, k) =>
       /\ ~m.panic /\ m.err = Nil
       /\ DOMAIN m.store = DOMAIN store \cup {at}
       /\ m.store[at].kind = "bucket"
       /\ SameBindings(store, m.store)
       /\ Cd(m.store, h, k).err = Nil
       /\ List(m.store, Cd(m.store, h, k).b) = [panic |-> FALSE, list |-> <<>>]

\* as stated, for every key: refuted by the empty key, which is unbound and
\* which CreateBucket rejects
C15_MkdirEveryKey ==
  \A h \in Containers(store), k \in ProbeKeys :
    MkdirFailsOnBound(h, k) /\ MkdirCreatesEmpty(h, k)

\* C15, amended: the same for every key that is not empty; with the empty key
\* Mkdir fails and leaves the store as it is
C15_MkdirNonEmptyKey ==
  \A h \in Containers(store) :
    /\ \A k \in ProbeKeys \ {Empty} :
         MkdirFailsOnBound(h, k) /\ MkdirCreatesEmpty(h, k)
    /\ Mkdir(store, h, Empty) =
         Returned(Errorf("unable to create bucket at key", Empty,
                         BoltBucketNameRequired), store)

\* Mkdir(A) has failed on a bucket that binds A to a bucket and X to a value
C15_Witness ==
  /\ last.cmd = "Mkdir" /\ last.args = <<PathA>>
  /\ last.err = Errorf("unable to create bucket at key", <<"A">>, BoltBucketExists)
  /\ cwd.type = "sub" /\ ~cwd.b.dead
  /\ store[cwd.b.at \o <<PathA>>].kind = "bucket"
  /\ (cwd.b.at \o <<PathX>>) \in DOMAIN store
  /\ store[cwd.b.at \o <<PathX>>].kind = "val"
  /\ Mkdir(store, cwd, PathX).err =
       Errorf("unable to create bucket at key", <<"X">>, BoltIncompatibleValue)

(***************************************************************************)
(* C16: on any container, root or not, Rm(k) of a key bound to nothing     *)
(* fails with ErrNoSuchKey and leaves the store unchanged; of a bound key  *)
(* it deletes the bucket or the value that a lookup of exactly k finds,    *)
(* and never a neighbour that sorts at or after k.                         *)
(* Refuted: the error Rm returns for an unbound key is not ErrNoSuchKey.   *)
(* SubBucket.Rm wraps an error it makes on the spot ("unable to delete     *)
(* ...: no such key"), RootBucket.Rm wraps Bolt's "bucket not found".      *)
(***************************************************************************)
\* Rm of a key bound to nothing fails and deletes nothing
RmUnboundFails(h, k) ==
  Unbound(store, h, k) =>
    /\ ~Rm(store, h, k).panic /\ Rm(store, h, k).err # Nil
    /\ Rm(store, h, k).store = store

\* Rm of a bound key deletes what is bound at or below exactly that key
RmBoundDeletesExactly(h, k) ==
  ~Unbound(store, h, k) =>
    /\ ~Rm(store, h, k).panic /\ Rm(store, h, k).err = Nil
    /\ Rm(store, h, k).store = Unbind(store, BoltOf(h).at \o <<k>>)
    /\ \A p \in DOMAIN store :
         ~IsPrefix(BoltOf(h).at \o <<k>>, p) => p \in DOMAIN Rm(store, h, k).store

C16_RmUnboundIsNoSuchKey ==
  \A h \in Containers(store), k \in ProbeKeys :
    /\ RmUnboundFails(h, k)
    /\ RmBoundDeletesExactly(h, k)
    /\ Unbound(store, h, k) => Rm(store, h, k).err = ErrNoSuchKey

(***************************************************************************)
(* C17: Cd(k) on a key bound to a value of any length, the empty value     *)
(* included, fails with "key is a value, not a bucket"; Cd(k) on an        *)
(* unbound key fails with ErrNoSuchBucket; the two are distinct errors,    *)
(* and in both cases Cd returns the handle it was called on.               *)
(***************************************************************************)
NotAContainer == NewError("key is a value, not a bucket")

CdFailsWith(s, h, k, err) ==
  Cd(s, h, k) = [panic |-> FALSE, b |-> h, err |-> err]

\* once Put(k, v) has bound k to v, Cd(k) fails as on any value
CdAfterPut(h, k, v) ==
  LET p == Put(store, h, k, v)
  IN (~p.panic /\ p.err = Nil) => CdFailsWith(p.store, h, k, NotAContainer)

C17_CdOnValueAndOnNothing ==
  /\ NotAContainer # ErrNoSuchBucket
  /\ \A h \in Containers(store), k \in ProbeKeys :
       /\ Unbound(store, h, k) => CdFailsWith(store, h, k, ErrNoSuchBucket)
       /\ (~Unbound(store, h, k) /\ NotABucket(store, h, k)) =>
            CdFailsWith(store, h, k, NotAContainer)
       /\ \A v \in Values : CdAfterPut(h, k, v)

\* Cd(X) has failed on a bucket that binds X to the empty value and A to
\* nothing
C17_Witness ==
  /\ last.cmd = "Cd" /\ last.args = <<PathX>>
  /\ last.err = NotAContainer
  /\ cwd.type = "sub" /\ ~cwd.b.dead
  /\ store[cwd.b.at \o <<PathX>>] = ValEntry("")
  /\ Cd(store, cwd, <<"A">>).err = ErrNoSuchBucket

(***************************************************************************)
(* C18: after any sequence of put, mkdir and rm commands, List() of a      *)
(* bucket returns each direct child exactly once, a bucket's name suffixed *)
(* with "/" and a value's key unsuffixed, in ascending order of the raw    *)
(* keys, and no entry string twice.                                        *)
(***************************************************************************)
\* the entry List shows for the key k bound at path p
EntryFor(s, p, k) == IF s[p].kind = "bucket" THEN k \o <<Slash>> ELSE k

\* the entries of l come from keys in ascending byte order: the one at i from
\* a key below the one at j, for i < j
Ascending(s, h, l) ==
  \A i, j \in 1..Len(l) :
    i < j =>
      \E k1, k2 \in Children(s, BoltOf(h)) :
        /\ l[i] = EntryFor(s, BoltOf(h).at \o <<k1>>, k1)
        /\ l[j] = EntryFor(s, BoltOf(h).at \o <<k2>>, k2)
        /\ BytesLess(k1, k2)

\* l lists each direct child of h once and no entry twice, in ascending order
EachChildOnce(h, l) ==
  /\ Len(l) = Cardinality(Children(store, BoltOf(h)))
  /\ \A k \in Children(store, BoltOf(h)) :
       Cardinality({i \in 1..Len(l) :
                      l[i] = EntryFor(store, BoltOf(h).at \o <<k>>, k)}) = 1
  /\ \A i, j \in 1..Len(l) : i # j => l[i] # l[j]
  /\ Ascending(store, h, l)

Rebase(s, at) ==
  [p \in {SubSeq(q, Len(at) + 1, Len(q)) :
            q \in {r \in DOMAIN s : IsPrefix(at, r) /\ r # at}} |-> s[at \o p]]

HoldsNoValues(s, h) ==
  \A k \in Children(s, BoltOf(h)) : s[BoltOf(h).at \o <<k>>].kind = "bucket"

\* the error without the key and the value it names
ErrorKind(err) == IF err = Nil THEN <<"nil">> ELSE
                  IF "cause" \in DOMAIN err THEN <<err.id, err.msg, err.cause>>
                  ELSE <<err.id, err.msg>>

SameOnRoot(h, k) ==
  LET r == Rebase(store, h.b.at)
      root == NewRootBucket
  IN /\ ErrorKind(Cd(store, h, k).err) = ErrorKind(Cd(r, root, k).err)
     /\ Cd(store, h, k).err = Nil =>
          /\ Cd(store, h, k).b.prev = h /\ Cd(r, root, k).b.prev = root
          /\ IsPrefix(<<Slash>> \o k,
                      SubSeq(String(Cd(store, h, k).b), Len(String(h)) + 1,
                             Len(String(Cd(store, h, k).b))))
          /\ String(Cd(r, root, k).b) = <<Slash>> \o k
     /\ List(store, h) = List(r, root)
     /\ \A w \in BOOLEAN : Buckets(store, h, w) = Buckets(r, root, w)
     /\ ErrorKind(Mkdir(store, h, k).err) = ErrorKind(Mkdir(r, root, k).err)
     /\ Rebase(Mkdir(store, h, k).store, h.b.at) = Mkdir(r, root, k).store
     /\ Rebase(Rm(store, h, k).store, h.b.at) = Rm(r, root, k).store
     /\ ErrorKind(Rm(store, h, k).err) = ErrorKind(Rm(r, root, k).err)

C19_RootLikeAnyBucket ==
  \A h \in Containers(store) \ {NewRootBucket}, k \in ProbeKeys :
    HoldsNoValues(store, h) => SameOnRoot(h, k)

(***************************************************************************)
(* C20: travel walks the segments from left to right and stops at the      *)
(* first one whose Cd fails: it returns that failure and the handle it had *)
(* reached, calls Cd for no later segment, and a later ".." does not undo  *)
(* the failure: "missing/.." fails where "." succeeds.                     *)
(***************************************************************************)
\* what may follow the failing segment
RestPaths == { <<".", ".">>, <<".", ".", "/", "A">> }

\* tried as the failing segment: a name that is unbound or a bucket's, and
\* one that is unbound or a value's
SegmentKeys == { <<"B">>, <<"X">> }

\* the call of Cd that returned c has failed
CdFails(c) == ~c.panic /\ c.err # Nil

\* travel from h over path stops at the n-th call of Cd, which returned c
\* when called on the handle at
StopsAt(h, path, at, c, n) ==
  travel(store, h, path) = [panic |-> FALSE, b |-> at, err |-> c.err, cds |-> n]

\* travel from h over k/rest stops at k, k being the first call of Cd
StopsAtFirst(h, k, c) ==
  CdFails(c) =>
    /\ \A rest \in RestPaths : StopsAt(h, k \o <<Slash>> \o rest, h, c, 1)
    /\ ~travel(store, h, Dot).panic /\ travel(store, h, Dot).err = Nil

\* travel from h over A/k/rest stops at k, k being the second call of Cd,
\* the first, of A, having returned a
StopsAtSecond(h, k, a, c) ==
  CdFails(c) =>
    \A rest \in RestPaths :
      StopsAt(h, <<"A", "/">> \o k \o <<Slash>> \o rest, a.b, c, 2)

StopsBelowA(h, k, a) ==
  (~a.panic /\ a.err = Nil) => StopsAtSecond(h, k, a, Cd(store, a.b, k))

C20_StopsAtFirstFailure ==
  \A h \in Starts, k \in SegmentKeys :
    /\ StopsAtFirst(h, k, Cd(store, h, k))
    /\ StopsBelowA(h, k, Cd(store, h, <<"A">>))

\* ls B/.. has failed at B in a bucket, where ls . succeeds
C20_Witness ==
  /\ last.cmd = "ls" /\ last.args = <<<<"B", "/", ".", ".">>>>
  /\ last.err = ErrNoSuchBucket /\ last.out = <<>>
  /\ cwd.type = "sub" /\ ~cwd.b.dead
  /\ lsCmd(State, <<Dot>>).last.err = Nil
  /\ lsCmd(State, <<DotDot>>).last.err = Nil

(***************************************************************************)
(* C21: parseKeyPath of a path without a slash returns the handle it was   *)
(* given and the whole path as key, also for ".", ".." and the empty path; *)
(* of a path with a slash it returns what travel returns for the text      *)
(* before the last slash, and the text after the last slash as key.  The   *)
(* key is returned as it stands, whatever it is, and holds no slash.       *)
(***************************************************************************)
KeyPathProbes ==
  { <<>>, <<".">>, <<".", ".">>, <<"A">>, <<"A", "/", "X">>, <<"A", "/">>,
    <<"/", "A">>, <<"A", "/", ".", ".">>, <<".", ".", "/", "A">>,
    <<"X", "/", "A">>, <<"A", "/", "/", "X">>, <<"A", "/", "X", "/", ".">> }

HasSlash(p) == \E i \in 1..Len(p) : p[i] = Slash

\* r is the handle and error of travel over the text before the slash at i,
\* with the text after it as key
CutAt(h, p, i, r) ==
  /\ r.key = SubSeq(p, i + 1, Len(p))
  /\ Outcome(r) = Outcome(travel(store, h, SubSeq(p, 1, i - 1)))

SplitsAtLastSlash(h, p, r) ==
  /\ ~HasSlash(r.key)
  /\ ~HasSlash(p) => r = [panic |-> FALSE, b |-> h, key |-> p, err |-> Nil]
  /\ HasSlash(p) =>
       \E i \in 1..Len(p) :
         /\ p[i] = Slash
         /\ \A j \in (i + 1)..Len(p) : p[j] # Slash
         /\ CutAt(h, p, i, r)

\* the start handle is the one the caller holds: it comes to be every bucket
\* of every database, a step at a time by travel of A and parseKeyPath of X/A
C21_KeyIsTextAfterLastSlash ==
  \A p \in KeyPathProbes : SplitsAtLastSlash(cwd, p, parseKeyPath(store, cwd, p))

\* parseKeyPath of A/.. has returned the bucket A and the key ".." as it stands
C21_Witness ==
  /\ last.cmd = "parseKeyPath" /\ last.args = <<<<"A", "/", ".", ".">>>>
  /\ last.err = Nil /\ last.out = <<DotDot>>
  /\ cwd.type = "sub" /\ cwd.b.at = <<PathA>>
  /\ parseKeyPath(store, cwd, Dot).key = Dot

(***************************************************************************)
(* C22: for every start handle and path p, travel gives the same result    *)
(* for "/" + p, for p + "/" and for p with any one of its slashes doubled  *)
(* as for p: the same handle, the same error, after the same calls of Cd.  *)
(* A path that begins with a slash is taken from the start handle.         *)
(***************************************************************************)
PathProbes ==
  { <<>>, <<"A">>, <<".", ".">>, <<"A", "/", "X">>, <<"A", "/", ".", ".", "/", "X">> }

\* p with the slash at i doubled
Doubled(p, i) == SubSeq(p, 1, i) \o <<Slash>> \o SubSeq(p, i + 1, Len(p))

\* t is what travel from h returns for p with empty segments added
SameWithEmptySegments(h, p, t) ==
  /\ travel(store, h, <<Slash>> \o p) = t
  /\ travel(store, h, p \o <<Slash>>) = t
  /\ travel(store, h, <<Slash>> \o p \o <<Slash>>) = t
  /\ \A i \in 1..Len(p) : p[i] = Slash => travel(store, h, Doubled(p, i)) = t

\* from the handle the caller holds, which comes to be every bucket
C22_EmptySegmentsSkipped ==
  \A p \in PathProbes : SameWithEmptySegments(cwd, p, travel(store, cwd, p))

\* travel of /A from the bucket /A has reached /A/A, not /A, where X is bound
\* to a value in /A and to nothing in /A/A
C22_Witness ==
  /\ last.cmd = "travel" /\ last.args = <<<<"/", "A">>>> /\ last.err = Nil
  /\ cwd.type = "sub" /\ cwd.b.at = <<PathA, PathA>>
  /\ <<PathA, PathX>> \in DOMAIN store
  /\ travel(store, NewRootBucket, <<"/", "A">>).b # cwd

(***************************************************************************)
(* C29: for every start handle c and paths p and q: when travel(c, p)      *)
(* returns the handle d and no error, travel(c, p + "/" + q) returns what  *)
(* travel(d, q) returns; when travel(c, p) returns an error,               *)
(* travel(c, p + "/" + q) returns the same error (and the same handle).    *)
(***************************************************************************)
FirstPaths == { <<>>, <<"A">>, <<".", ".">>, <<"X">>, <<"A", "/", "X">> }
SecondPaths == { <<>>, <<"A">>, <<".", ".">>, <<"X", "/", ".", ".">> }

\* tp is what travel(c, p) returns, tpq what travel(c, p/q) returns
Composes(c, q, tp, tpq) ==
  /\ tp.panic => tpq.panic
  /\ (~tp.panic /\ tp.err # Nil) => tpq = tp
  /\ (~tp.panic /\ tp.err = Nil) =>
       /\ Outcome(tpq) = Outcome(travel(store, tp.b, q))
       /\ tpq.panic \/ tpq.cds = tp.cds + travel(store, tp.b, q).cds

\* from the handle the caller holds, which comes to be every bucket
C29_TravelComposes ==
  \A p \in FirstPaths, q \in SecondPaths :
    Composes(cwd, q, travel(store, cwd, p), travel(store, cwd, p \o <<Slash>> \o q))

\* travel of A/X has reached the bucket X of the bucket A, which is where
\* travel of X from the bucket A leads; travel of X/A fails where travel of X does
C29_Witness ==
  /\ last.cmd = "travel" /\ last.args = <<<<"A", "/", "X">>>> /\ last.err = Nil
  /\ cwd.type = "sub" /\ cwd.b.at = <<PathA, PathX>>
  /\ travel(store, cwd.prev.prev, PathA).b = cwd.prev
  /\ travel(store, cwd.prev, PathX).b = cwd
  /\ travel(store, cwd, PathX).err = ErrNoSuchBucket

(***************************************************************************)
(* C27: on a bucket other than the root, Put(k, v) on a key k bound to a   *)
(* bucket fails ("unable to store ...", Bolt's "incompatible value") and   *)
(* leaves the database as it is: the bucket at k and all it holds stay.    *)
(***************************************************************************)
IsBucketOf(s, h, k) ==
  (BoltOf(h).at \o <<k>>) \in DOMAIN s /\ s[BoltOf(h).at \o <<k>>].kind = "bucket"

PutOnBucketFails(h, k, v) ==
  Put(store, h, k, v) =
    Returned(StoreError(v, k, Returned(BoltIncompatibleValue, store)), store)

C27_PutNeverReplacesBucket ==
  \A h \in Containers(store) \ {NewRootBucket}, k \in ProbeKeys :
    IsBucketOf(store, h, k) => \A v \in Values : PutOnBucketFails(h, k, v)

\* Put(X, v) has failed on a bucket below the root in which X is a bucket that
\* holds the bucket A
C27_Witness ==
  /\ last.cmd = "Put" /\ last.args[1] = PathX
  /\ last.err = StoreError(last.args[2], PathX, Returned(BoltIncompatibleValue, store))
  /\ cwd.type = "sub" /\ ~cwd.b.dead
  /\ IsBucketOf(store, cwd, PathX)
  /\ (cwd.b.at \o <<PathX, PathA>>) \in DOMAIN store

(***************************************************************************)
(* C28: Rm(k) of a bucket deletes the bucket with all it holds and nothing *)
(* else: Mkdir(k) on the same parent then succeeds and the new bucket      *)
(* lists no entries, and every binding that is not at or below k is what   *)
(* it was before the Rm, after the Rm and after the Mkdir.                 *)
(***************************************************************************)
\* the bindings of s that are not at or below path, without Bolt's page state
Outside(s, path) ==
  [p \in {q \in DOMAIN s : ~IsPrefix(path, q)} |->
     IF s[p].kind = "val" THEN s[p] ELSE [kind |-> "bucket"]]

\* r is what Rm(k) on h returns, m what Mkdir(k) on h returns after it
RmThenMkdir(h, k, at, r, m) ==
  /\ r = Returned(Nil, r.store)
  /\ DOMAIN r.store = {q \in DOMAIN store : ~IsPrefix(at, q)}
  /\ Outside(r.store, at) = Outside(store, at)
  /\ m = Returned(Nil, m.store)
  /\ DOMAIN m.store = DOMAIN r.store \cup {at}
  /\ Outside(m.store, at) = Outside(store, at)
  /\ List(m.store, Cd(m.store, h, k).b) = [panic |-> FALSE, list |-> <<>>]

RmDeletesSubtree(h, k, r) ==
  RmThenMkdir(h, k, BoltOf(h).at \o <<k>>, r, Mkdir(r.store, h, k))

C28_RmDeletesSubtreeOnly ==
  \A h \in Containers(store), k \in ProbeKeys :
    IsBucketOf(store, h, k) => RmDeletesSubtree(h, k, Rm(store, h, k))

\* Rm(A) has succeeded on a bucket below the root that still binds X, and
\* Mkdir(A) then creates a bucket that lists nothing
C28_Witness ==
  /\ last.cmd = "Rm" /\ last.args = <<PathA>> /\ last.err = Nil
  /\ cwd.type = "sub" /\ ~cwd.b.dead
  /\ (cwd.b.at \o <<PathX>>) \in DOMAIN store
  /\ Unbound(store, cwd, PathA)
  /\ List(Mkdir(store, cwd, PathA).store, Cd(Mkdir(store, cwd, PathA).store, cwd, PathA).b).list = <<>>

(***************************************************************************)
(* C25: after any sequence of commands the current position is a bucket    *)
(* that is still in the database: travel from the root over its path       *)
(* succeeds and leads to it.                                               *)
(* Refuted: rm of the current position's bucket (or of one above it) over  *)
(* a ".." path deletes the bucket and leaves cwd as it is.                 *)
(***************************************************************************)
C25_CwdStillExists ==
  /\ cwd \in Containers(store)
  /\ travel(store, NewRootBucket, String(cwd)).err = Nil
  /\ travel(store, NewRootBucket, String(cwd)).b = cwd

(***************************************************************************)
(* C26: for every current position and path p, when mkdir p succeeds, cd p *)
(* run next succeeds and the current position comes to be the bucket that  *)
(* mkdir created: the one named by the key of p in the bucket that the     *)
(* text before the last slash of p leads to, also for the keys "." and     *)
(* "..".                                                                   *)
(* Refuted by those keys: mkdir . creates a bucket with the key ".", and   *)
(* cd . stays where it is; mkdir .. creates "..", and cd .. goes up.       *)
(***************************************************************************)
MkdirProbes ==
  { <<"A">>, <<"B">>, <<"A", "/", "B">>, <<".", ".", "/", "A">>,
    <<".">>, <<".", ".">>, <<"A", "/", ".">>, <<"A", "/", ".", ".">> }

\* c is the state cd p leaves, run in the state that a successful mkdir p left,
\* k being what parseKeyPath returned to mkdir
CdReachesCreated(k, c) ==
  /\ c.last.err = Nil
  /\ c.cwd.type = "sub"
  /\ c.cwd.b.at = BoltOf(k.b).at \o <<k.key>>
  /\ c.cwd.prev = k.b

CdAfterMkdir(p, m) ==
  (~m.crashed /\ m.last.err = Nil) =>
    CdReachesCreated(parseKeyPath(store, cwd, p), cdCmd(m, <<p>>))

\* as stated, for every key
C26_CdFollowsMkdir ==
  ~crashed => \A p \in MkdirProbes : CdAfterMkdir(p, mkdirCmd(State, <<p>>))

(***************************************************************************)
(* C23: for every word being typed whose text before the last slash fails  *)
(* to resolve from the current position, bucketCompleter and keyCompleter  *)
(* return no candidates and report no error; and no completion, whatever   *)
(* the word, changes the current position, the prompt or the database.     *)
(***************************************************************************)
PartialProbes ==
  { <<>>, <<"A">>, <<"A", "/">>, <<"X", "/", "A">>, <<"/", "A">>,
    <<"A", "/", "B", "/">>, <<".", ".", "/", "B", "/", "X">> }

\* the text of current before its last slash fails to resolve from cwd
PrefixFails(current) ==
  /\ HasSlash(current)
  /\ ~travel(store, cwd, SubSeq(current, 1, LastIndex(current))).panic
  /\ travel(store, cwd, SubSeq(current, 1, LastIndex(current))).err # Nil

\* c is the state a completer leaves
NoCandidates(c) == c.last.err = Nil /\ c.last.out = <<>> /\ ~c.crashed

ChangesNothing(c) == c.store = store /\ c.cwd = cwd /\ c.prompt = prompt

CompletesQuietly(current, b, k) ==
  /\ ChangesNothing(b) /\ ChangesNothing(k)
  /\ b.last.err \in {Nil, Panic} /\ k.last.err \in {Nil, Panic}
  /\ PrefixFails(current) => NoCandidates(b) /\ NoCandidates(k)

C23_FailedPrefixCompletesToNothing ==
  (~crashed /\ ~ended) =>
    \A current \in PartialProbes :
      CompletesQuietly(current, bucketCompleter(State, current),
                       keyCompleter(State, current))

\* bucketCompleter has returned nothing for X/A in a bucket below the root
\* that holds a bucket and in which X is a value
C23_Witness ==
  /\ last.cmd = "bucketCompleter" /\ last.args = <<<<"X", "/", "A">>>>
  /\ last.err = Nil /\ last.out = <<>>
  /\ cwd.type = "sub" /\ ~cwd.b.dead
  /\ Buckets(store, cwd, TRUE).list # <<>>
  /\ travel(store, cwd, PathX).err = NotAContainer

(***************************************************************************)
(* C24: however the session ends (the exit command, end of input, an       *)
(* interrupt), the write transaction is committed: what the session's      *)
(* put, mkdir and rm commands stored is in the database file.              *)
(* Refuted by the interrupt: at the second Ctrl-C in a row                 *)
(* interruptHandler calls os.Exit(1), db.Update never returns and nothing  *)
(* is committed.                                                           *)
(***************************************************************************)
C24_EveryEndCommits == ended => disk = store

====
